---- MODULE Spec2Model ----
(***************************************************************************)
(* State-machine model of the chat client component App                    *)
(* (src/unnamed/part_000): the merged message view, the connection         *)
(* trigger, the typing debouncer and the send handler.                     *)
(*                                                                         *)
(* Text is modelled as a sequence of one-character strings so that         *)
(* String.prototype.trim is computed, not assumed.                         *)
(***************************************************************************)
EXTENDS Naturals, Sequences, FiniteSets, TLC

\* ------------------------------------------------------------------ bounds
MaxLen == 1        \* longest text typed into an input field
MaxLive == 2       \* live messages received in a session
MaxPending == 2    \* durable writes outstanding at a time

\* ------------------------------------------------------------------ values
NULL == "null"
DB == "dbInstance"
UID == "uid"
\* typingTimeoutRef.current when no timer handle is held (useRef(null));
\* setTimeout handles are positive.
NoTimer == 0

Chars == {" ", "a"}
Strings == UNION {[1..n -> Chars] : n \in 0..MaxLen}
EmptyString == << >>
\* What can be typed into the username prompt: the strings above and a name
\* with blanks around it.
NameInputs == Strings \cup {<<" ", "a", " ">>}

RECURSIVE TrimStart(_)
TrimStart(s) ==
    IF s # << >> /\ Head(s) = " " THEN TrimStart(Tail(s)) ELSE s

RECURSIVE TrimEnd(_)
TrimEnd(s) ==
    IF s # << >> /\ s[Len(s)] = " " THEN TrimEnd(SubSeq(s, 1, Len(s) - 1)) ELSE s

\* String.prototype.trim
Trim(s) == TrimEnd(TrimStart(s))

RECURSIVE Reverse(_)
\* Array.prototype.reverse
Reverse(s) ==
    IF s = << >> THEN << >> ELSE Append(Reverse(Tail(s)), Head(s))

\* The documents of the store: document d was written at time d.
DocIds == {1, 2}
DocData(d) == [text |-> <<"t">>, sender |-> <<"s">>, timestamp |-> d]
Doc(d) == [id |-> d, data |-> DocData(d)]

\* What the query orderBy('timestamp', 'desc'), limit(50) can return: distinct
\* documents, newest first.
Snapshots ==
    {s \in UNION {[1..n -> DocIds] : n \in 0..Cardinality(DocIds)} :
        \A i \in 1..Len(s) : \A j \in 1..Len(s) : i < j => s[i] > s[j]}
SnapshotDocs(s) == [i \in 1..Len(s) |-> Doc(s[i])]

\* Messages the transport can deliver: one that user "a" sent with the text
\* "a", and one of another user.  They carry no id.
LiveMsgs == {[sender |-> <<"a">>, message |-> <<"a">>],
             [sender |-> <<"b">>, message |-> <<"h", "i">>]}

\* Commands issued to the collaborators.
ConnectOp(uname) == [op |-> "connect", arg |-> uname]
SendOp(text) == [op |-> "sendMessage", arg |-> text]
TypingOp(b) == [op |-> "setTyping", arg |-> b]
AddDocOp(msg) == [op |-> "addDoc", arg |-> msg]
SubscribeOp == [op |-> "onSnapshot", arg |-> NULL]
UnsubscribeOp(stream) == [op |-> "unsubscribe", arg |-> stream]

VARIABLES
    \* React state and refs of App
    db, isAuthReady, username, input, persistentMessages,
    typingTimeoutRef, hasConnectedRef,
    \* state returned by the useSocket hook
    liveMessages, isConnected,
    \* environment: the browser's timer queue, the mount effect's position, the
    \* registered listeners, the number of addDoc promises not yet settled
    timers, initDone, authSubscribed, subscribed, pendingAppends,
    \* whether the component is mounted
    mounted,
    \* the last step: the handler that ran and the commands it issued, in order
    lastEvent, ops,
    \* whether the last step delivered a snapshot, and to which view: "none",
    \* "onEmpty" (no durable message was shown), "replacing" (some were)
    snapshotDelivery,
    \* history: the connect calls, the last typing command, the last snapshot
    \* delivered, the live messages delivered
    connectCalls, lastTyping, lastSnapshot, liveReceived,
    \* the typing debouncer's state machine as specified ("Idle", "Typing"), and
    \* the 'start typing' commands of the burst of keystrokes in progress
    debouncer, burstStarts

vars == <<db, isAuthReady, username, input, persistentMessages,
          typingTimeoutRef, hasConnectedRef, liveMessages, isConnected,
          timers, initDone, authSubscribed, subscribed, pendingAppends,
          mounted, lastEvent, ops, snapshotDelivery, connectCalls, lastTyping,
          lastSnapshot, liveReceived, debouncer, burstStarts>>

\* Mutant of the merge below: the live messages come first.
allMessages_LiveFirst == liveMessages \o persistentMessages

\* const allMessages = [...persistentMessages, ...liveMessages]
allMessages == persistentMessages \o liveMessages

\* What the message list shows of a message:
\*   messageSender = msg.sender || msg.username
\*   messageText = msg.text || msg.message
\* The key the message at 1-based position i of view is rendered with:
\*   allMessages.map((msg, index) => ... key={msg.id || index}
renderKey(view, i) ==
    IF "id" \in DOMAIN view[i] THEN view[i].id ELSE i - 1

messageSender(msg) ==
    IF "sender" \in DOMAIN msg THEN msg.sender ELSE msg.username
messageText(msg) ==
    IF "text" \in DOMAIN msg THEN msg.text ELSE msg.message

Init ==
    /\ db = NULL
    /\ isAuthReady = FALSE
    /\ username = EmptyString
    /\ input = EmptyString
    /\ persistentMessages = << >>
    /\ typingTimeoutRef = NoTimer
    /\ hasConnectedRef = FALSE
    /\ liveMessages = << >>
    /\ isConnected = FALSE
    /\ timers = {}
    /\ initDone = FALSE
    /\ authSubscribed = FALSE
    /\ subscribed = FALSE
    /\ pendingAppends = 0
    /\ mounted = TRUE
    /\ lastEvent = "none"
    /\ ops = << >>
    /\ connectCalls = << >>
    /\ lastTyping = "none"
    /\ lastSnapshot = << >>
    /\ snapshotDelivery = "none"
    /\ liveReceived = << >>
    /\ debouncer = "Idle"
    /\ burstStarts = 0

\* ------------------------------------------------------------ rendered UI
\* The chat interface replaces the username prompt once username is set
\* (if (!username) return <prompt>), and its text input carries
\* disabled={!isConnected}.
InputEnabled == username # EmptyString /\ isConnected

\* Mutant of the button's state below: the connection is not looked at.
SendEnabled_NoConnectionTest ==
    username # EmptyString /\ Trim(input) # EmptyString

\* The Send button carries disabled={!input.trim() || !isConnected}; a form
\* whose submit button is disabled is not submitted.
SendEnabled == username # EmptyString /\ Trim(input) # EmptyString /\ isConnected

\* ---------------------------------------------------------------- effects
\* Mutants of the guard below: one forgets the hasConnectedRef flag, one
\* forgets the username.
ShouldConnect_NoFlag(auth, uname) == auth /\ uname # EmptyString
ShouldConnect_NoUsername(auth, uname) == auth /\ ~hasConnectedRef

\* if (isAuthReady && username && !hasConnectedRef.current)
ShouldConnect(auth, uname) == auth /\ uname # EmptyString /\ ~hasConnectedRef

\* The socket connection effect, run after the render that follows a handler
\* which issued handlerOps and left isAuthReady = auth and username = uname:
\*   hasConnectedRef.current = true; connect(username);
\* Its dependency connect comes from the hook and may change with any render.
SocketConnectionEffect(auth, uname, handlerOps) ==
    IF ShouldConnect(auth, uname)
    THEN /\ hasConnectedRef' = TRUE
         /\ connectCalls' = Append(connectCalls, uname)
         /\ ops' = Append(handlerOps, ConnectOp(uname))
    ELSE /\ UNCHANGED <<hasConnectedRef, connectCalls>>
         /\ ops' = handlerOps

\* Mutants of the guard below: the listener does not wait for identity; the
\* listener also waits for a username.
ListenerSubscribes_NoAuth(auth, d) == d # NULL
ListenerSubscribes_NeedsUsername(auth, d) ==
    auth /\ d # NULL /\ username # EmptyString

\* if (!isAuthReady || !db) return; ... onSnapshot(q, ...)
ListenerSubscribes(auth, d) == auth /\ d # NULL

\* The Firestore listener effect, run when isAuthReady or db changed; the
\* cleanup of its previous run releases the previous listener first.  The
\* result is the commands it issues.
FirestoreListenerOps(changed, auth, d) ==
    IF changed /\ ListenerSubscribes(auth, d) THEN <<SubscribeOp>> ELSE << >>

FirestoreListenerEffect(changed, auth, d) ==
    subscribed' = IF changed THEN ListenerSubscribes(auth, d) ELSE subscribed

\* ------------------------------------------------------- mount and identity
\* The mount effect: initializeApp/getAuth/getFirestore, setDb, then either the
\* dummy-key bypass (identity ready at once) or onAuthStateChanged; an
\* exception is caught and leaves db unset.
InitFirebase(outcome) ==
    /\ mounted
    /\ ~initDone
    /\ initDone' = TRUE
    /\ snapshotDelivery' = "none"
    /\ lastEvent' = "InitFirebase"
    /\ db' = IF outcome = "throws" THEN db ELSE DB
    /\ isAuthReady' = IF outcome = "dummy" THEN TRUE ELSE isAuthReady
    /\ authSubscribed' = (outcome = "real")
    /\ FirestoreListenerEffect(outcome # "throws", isAuthReady', db')
    /\ SocketConnectionEffect(isAuthReady', username,
           FirestoreListenerOps(outcome # "throws", isAuthReady', db'))
    /\ UNCHANGED <<mounted, username, input, persistentMessages,
                   typingTimeoutRef, liveMessages, isConnected, timers,
                   pendingAppends, lastTyping, debouncer, burstStarts,
                   lastSnapshot, liveReceived>>

\* onAuthStateChanged(authInstance, async (user) => { if (user) { setUserId;
\*   setIsAuthReady(true) } else { await signInAnonymously } })
OnAuthStateChanged(user) ==
    /\ authSubscribed
    /\ snapshotDelivery' = "none"
    /\ lastEvent' = "OnAuthStateChanged"
    /\ isAuthReady' = IF user # NULL THEN TRUE ELSE isAuthReady
    /\ FirestoreListenerEffect(isAuthReady' # isAuthReady, isAuthReady', db)
    /\ SocketConnectionEffect(isAuthReady', username,
           FirestoreListenerOps(isAuthReady' # isAuthReady, isAuthReady', db))
    /\ UNCHANGED <<mounted, db, username, input, persistentMessages,
                   typingTimeoutRef, liveMessages, isConnected, timers,
                   initDone, authSubscribed, pendingAppends, lastTyping,
                   debouncer, burstStarts, lastSnapshot, liveReceived>>

\* ------------------------------------------------------------ username form
\* Mutant of the handler below: the name is not trimmed.
SubmitUsername_NoTrim(value) ==
    /\ mounted
    /\ username = EmptyString
    /\ snapshotDelivery' = "none"
    /\ lastEvent' = "SubmitUsername"
    /\ username' = IF value # EmptyString THEN value ELSE username
    /\ SocketConnectionEffect(isAuthReady, username', << >>)
    /\ UNCHANGED <<mounted, db, isAuthReady, input, persistentMessages,
                   typingTimeoutRef, liveMessages, isConnected, timers,
                   initDone, authSubscribed, subscribed, pendingAppends,
                   lastTyping, debouncer, burstStarts, lastSnapshot,
                   liveReceived>>

\* const name = e.target.usernameInput.value.trim(); if (name) setUsername(name)
\* The form exists only while username is empty.
SubmitUsername(value) ==
    /\ mounted
    /\ username = EmptyString
    /\ snapshotDelivery' = "none"
    /\ lastEvent' = "SubmitUsername"
    /\ username' = IF Trim(value) # EmptyString THEN Trim(value) ELSE username
    /\ SocketConnectionEffect(isAuthReady, username', << >>)
    /\ UNCHANGED <<mounted, db, isAuthReady, input, persistentMessages,
                   typingTimeoutRef, liveMessages, isConnected, timers,
                   initDone, authSubscribed, subscribed, pendingAppends,
                   lastTyping, debouncer, burstStarts, lastSnapshot,
                   liveReceived>>

\* --------------------------------------------------------- durable history
\* {...doc.data(), id: doc.id}
DocMessage(doc) ==
    [text |-> doc.data.text, sender |-> doc.data.sender,
     timestamp |-> doc.data.timestamp, id |-> doc.id]

\* Mutant of the mapping below: the reversal is forgotten.
SnapshotMessages_NoReverse(docs) ==
    [i \in 1..Len(docs) |-> DocMessage(docs[i])]

\* snapshot.docs.map(doc => ({...doc.data(), id: doc.id})).reverse()
SnapshotMessages(docs) ==
    Reverse([i \in 1..Len(docs) |-> DocMessage(docs[i])])

\* The onSnapshot callback: setPersistentMessages(newMessages)
OnSnapshot(docs) ==
    /\ subscribed
    /\ lastEvent' = "OnSnapshot"
    /\ persistentMessages' = SnapshotMessages(docs)
    /\ lastSnapshot' = docs
    /\ snapshotDelivery' = IF persistentMessages = << >> THEN "onEmpty"
                                                          ELSE "replacing"
    /\ SocketConnectionEffect(isAuthReady, username, << >>)
    /\ UNCHANGED <<mounted, db, isAuthReady, username, input, typingTimeoutRef,
                   liveMessages, isConnected, timers, initDone,
                   authSubscribed, subscribed, pendingAppends, lastTyping,
                   debouncer, burstStarts,
                   liveReceived>>

\* Mutant of the error callback below: it drops the history shown.
OnSnapshotError_ClearsHistory ==
    /\ subscribed
    /\ snapshotDelivery' = "none"
    /\ lastEvent' = "OnSnapshotError"
    /\ ops' = << >>
    /\ persistentMessages' = << >>
    /\ UNCHANGED <<mounted, db, isAuthReady, username, input,
                   typingTimeoutRef, hasConnectedRef,
                   liveMessages, isConnected, timers, initDone,
                   authSubscribed, subscribed, pendingAppends, connectCalls,
                   lastTyping, lastSnapshot, liveReceived,
                   debouncer, burstStarts>>

\* The onSnapshot error callback: console.error(...) and nothing else.
OnSnapshotError ==
    /\ subscribed
    /\ snapshotDelivery' = "none"
    /\ lastEvent' = "OnSnapshotError"
    /\ ops' = << >>
    /\ UNCHANGED <<mounted, db, isAuthReady, username, input,
                   persistentMessages, typingTimeoutRef, hasConnectedRef,
                   liveMessages, isConnected, timers, initDone,
                   authSubscribed, subscribed, pendingAppends, connectCalls,
                   lastTyping, lastSnapshot, liveReceived,
                   debouncer, burstStarts>>

\* ---------------------------------------------------------- live transport
\* The transport reports its connection state; it connects only after
\* connect(username) was called and reconnects by its own policy.
OnConnectionChange(connected) ==
    /\ mounted
    /\ connectCalls # << >>
    /\ connected # isConnected
    /\ snapshotDelivery' = "none"
    /\ lastEvent' = "OnConnectionChange"
    /\ isConnected' = connected
    /\ SocketConnectionEffect(isAuthReady, username, << >>)
    /\ UNCHANGED <<mounted, db, isAuthReady, username, input,
                   persistentMessages, typingTimeoutRef, liveMessages, timers,
                   initDone, authSubscribed, subscribed, pendingAppends,
                   lastTyping, debouncer, burstStarts, lastSnapshot,
                   liveReceived>>

\* onLiveMessage(message): appends to liveMessages.
OnLiveMessage(m) ==
    /\ mounted
    /\ isConnected
    /\ Len(liveMessages) < MaxLive
    /\ snapshotDelivery' = "none"
    /\ lastEvent' = "OnLiveMessage"
    /\ liveMessages' = Append(liveMessages, m)
    /\ liveReceived' = Append(liveReceived, m)
    /\ SocketConnectionEffect(isAuthReady, username, << >>)
    /\ UNCHANGED <<mounted, db, isAuthReady, username, input,
                   persistentMessages, typingTimeoutRef, isConnected, timers,
                   initDone, authSubscribed, subscribed, pendingAppends,
                   lastTyping, debouncer, burstStarts, lastSnapshot>>

\* --------------------------------------------------------- typing debouncer
\* if (newText.length > 0 && !typingTimeoutRef.current) setTyping(true)
EmitsStartTyping(newText) == Len(newText) > 0 /\ typingTimeoutRef = NoTimer

\* The handle setTimeout returns: one that no outstanding timer has.
SetTimeoutHandle(outstanding) ==
    CHOOSE id \in 1..(Cardinality(outstanding) + 1) :
        /\ id \notin outstanding
        /\ \A k \in 1..(id - 1) : k \in outstanding

\* Mutant of the re-arming below: the timer is cleared and no new one set.
RearmTypingTimer_OnlyClears ==
    [timers |-> timers \ {typingTimeoutRef}, ref |-> NoTimer]

\* Mutant of the re-arming below: the previous timer is not cleared.
RearmTypingTimer_NoClear ==
    LET id == SetTimeoutHandle(timers)
    IN  [timers |-> timers \cup {id}, ref |-> id]

\* clearTimeout(typingTimeoutRef.current);
\* typingTimeoutRef.current = setTimeout(..., 2000)
\* The result is the timer queue and the ref afterwards.
RearmTypingTimer ==
    LET cleared == timers \ {typingTimeoutRef}
        id == SetTimeoutHandle(cleared)
    IN  [timers |-> cleared \cup {id}, ref |-> id]

\* handleInputChange, called with e.target.value = newText
handleInputChange(newText) ==
    /\ mounted
    /\ snapshotDelivery' = "none"
    /\ lastEvent' = "handleInputChange"
    /\ input' = newText
    /\ lastTyping' = IF EmitsStartTyping(newText) THEN "start" ELSE lastTyping
    /\ timers' = RearmTypingTimer.timers
    /\ typingTimeoutRef' = RearmTypingTimer.ref
    /\ SocketConnectionEffect(isAuthReady, username,
           IF EmitsStartTyping(newText) THEN <<TypingOp(TRUE)>> ELSE << >>)
    \* history
    /\ debouncer' = IF Len(newText) > 0 THEN "Typing" ELSE debouncer
    /\ burstStarts' = (IF timers = {} THEN 0 ELSE burstStarts)
                      + (IF EmitsStartTyping(newText) /\ burstStarts < 2
                         THEN 1 ELSE 0)
    /\ UNCHANGED <<mounted, db, isAuthReady, username, persistentMessages,
                   liveMessages, isConnected, initDone, authSubscribed,
                   subscribed, pendingAppends, lastSnapshot,
                   liveReceived>>

\* The setTimeout callback: setTyping(false); typingTimeoutRef.current = null.
\* The browser runs it for a timer that is still outstanding.  The 2000 ms
\* delay is not measured: a keystroke that arrives in time is one that arrives
\* while the timer is outstanding.
TimerFires(id) ==
    /\ id \in timers
    /\ snapshotDelivery' = "none"
    /\ lastEvent' = "TimerFires"
    /\ timers' = timers \ {id}
    /\ ops' = <<TypingOp(FALSE)>>
    /\ lastTyping' = "stop"
    /\ typingTimeoutRef' = NoTimer
    \* history
    /\ debouncer' = "Idle"
    /\ burstStarts' = 0
    /\ UNCHANGED <<mounted, db, isAuthReady, username, input,
                   persistentMessages, hasConnectedRef, liveMessages,
                   isConnected, initDone, authSubscribed, subscribed,
                   pendingAppends, connectCalls, lastSnapshot, liveReceived>>

\* ------------------------------------------------------------------- send
\* Mutants of the guard below: one tests the untrimmed input, one also gives
\* up when there is no store handle.
SendIsNoOp_NoTrim == input = EmptyString \/ username = EmptyString
SendIsNoOp_NeedsDb ==
    Trim(input) = EmptyString \/ username = EmptyString \/ db = NULL

\* const text = input.trim(); if (!text || !username) return;
SendIsNoOp == Trim(input) = EmptyString \/ username = EmptyString

\* Mutant of the durable write below: the append is attempted twice.
sendMessageToDb_Twice(msg) ==
    IF db = NULL
    THEN [ops |-> << >>, pending |-> pendingAppends]
    ELSE [ops |-> <<AddDocOp(msg), AddDocOp(msg)>>,
          pending |-> pendingAppends + 1]

\* sendMessageToDb(msg): if (!db) return; try { await addDoc(..., msg) }
\* catch (e) { console.error unless IS_DUMMY_KEY }.  The result is the
\* commands issued and the addDoc promises outstanding after the call.
sendMessageToDb(msg) ==
    IF db = NULL
    THEN [ops |-> << >>, pending |-> pendingAppends]
    ELSE [ops |-> <<AddDocOp(msg)>>, pending |-> pendingAppends + 1]

\* The message handleSend stores: { text, sender: username, timestamp }
OutgoingMessage == [text |-> Trim(input), sender |-> username]

\* handleSend
handleSend ==
    /\ mounted
    /\ snapshotDelivery' = "none"
    /\ lastEvent' = "handleSend"
    /\ IF SendIsNoOp
       THEN /\ ops' = << >>
            /\ UNCHANGED <<mounted, db, isAuthReady, username, input,
                           persistentMessages, typingTimeoutRef,
                           hasConnectedRef, liveMessages, isConnected, timers,
                           initDone, authSubscribed, subscribed,
                           pendingAppends, connectCalls, lastTyping,
                           lastSnapshot, liveReceived,
                           debouncer, burstStarts>>
       ELSE /\ db = NULL \/ pendingAppends < MaxPending
            /\ pendingAppends' = sendMessageToDb(OutgoingMessage).pending
            /\ lastTyping' = "stop"
            /\ timers' = timers \ {typingTimeoutRef}
            /\ typingTimeoutRef' = NoTimer
            /\ input' = EmptyString
            /\ SocketConnectionEffect(isAuthReady, username,
                   <<SendOp(Trim(input))>>
                   \o sendMessageToDb(OutgoingMessage).ops
                   \o <<TypingOp(FALSE)>>)
            \* history
            /\ debouncer' = "Idle"
            /\ burstStarts' = 0
            /\ UNCHANGED <<mounted, db, isAuthReady, username,
                           persistentMessages, liveMessages, isConnected,
                           initDone, authSubscribed, subscribed, lastSnapshot,
                           liveReceived>>

\* Mutant of the settling below: a rejected append clears the input.
AppendSettles_ClearsInput(outcome) ==
    /\ pendingAppends > 0
    /\ snapshotDelivery' = "none"
    /\ lastEvent' = IF outcome = "rejected" THEN "appendRejected"
                                            ELSE "appendResolved"
    /\ pendingAppends' = pendingAppends - 1
    /\ ops' = << >>
    /\ input' = IF outcome = "rejected" THEN EmptyString ELSE input
    /\ UNCHANGED <<mounted, db, isAuthReady, username, persistentMessages,
                   typingTimeoutRef, hasConnectedRef, liveMessages,
                   isConnected, timers, initDone, authSubscribed, subscribed,
                   connectCalls, lastTyping, lastSnapshot, liveReceived,
                   debouncer, burstStarts>>

\* The addDoc promise of one outstanding append settles; a rejection is
\* caught inside sendMessageToDb and only logged to the console.  Neither
\* outcome looks at the message written, so which promise settles makes no
\* difference to the state.
AppendSettles(outcome) ==
    /\ pendingAppends > 0
    /\ snapshotDelivery' = "none"
    /\ lastEvent' = IF outcome = "rejected" THEN "appendRejected"
                                            ELSE "appendResolved"
    /\ pendingAppends' = pendingAppends - 1
    /\ ops' = << >>
    /\ UNCHANGED <<mounted, db, isAuthReady, username, input,
                   persistentMessages, typingTimeoutRef, hasConnectedRef,
                   liveMessages, isConnected, timers, initDone,
                   authSubscribed, subscribed, connectCalls, lastTyping,
                   lastSnapshot, liveReceived, debouncer, burstStarts>>

\* ---------------------------------------------------------------- teardown
\* Mutant of the teardown below: the Firestore listener effect returns no
\* cleanup, so the snapshot listener stays registered.
Unmount_LeaksSnapshotListener ==
    /\ mounted
    /\ initDone
    /\ mounted' = FALSE
    /\ snapshotDelivery' = "none"
    /\ lastEvent' = "Unmount"
    /\ ops' = IF authSubscribed THEN <<UnsubscribeOp("identity")>> ELSE << >>
    /\ authSubscribed' = FALSE
    /\ UNCHANGED <<db, isAuthReady, username, input, persistentMessages,
                   typingTimeoutRef, hasConnectedRef, liveMessages,
                   isConnected, timers, initDone, subscribed, pendingAppends,
                   connectCalls, lastTyping, lastSnapshot,
                   liveReceived, debouncer, burstStarts>>

\* The component unmounts: the cleanups of its effects run, that of the mount
\* effect (return () => unsubscribe(), the identity listener) and that of the
\* Firestore listener effect (return () => unsubscribe(), the snapshot
\* listener).  No cleanup touches the typing timer or the addDoc promises.
Unmount ==
    /\ mounted
    /\ initDone
    /\ mounted' = FALSE
    /\ snapshotDelivery' = "none"
    /\ lastEvent' = "Unmount"
    /\ ops' = (IF authSubscribed THEN <<UnsubscribeOp("identity")>> ELSE << >>)
              \o (IF subscribed THEN <<UnsubscribeOp("snapshot")>> ELSE << >>)
    /\ authSubscribed' = FALSE
    /\ subscribed' = FALSE
    /\ UNCHANGED <<db, isAuthReady, username, input, persistentMessages,
                   typingTimeoutRef, hasConnectedRef, liveMessages,
                   isConnected, timers, initDone, pendingAppends,
                   connectCalls, lastTyping, lastSnapshot,
                   liveReceived, debouncer, burstStarts>>

\* ------------------------------------------------------------- user events
\* A change event of the text input: the control is enabled and its value
\* changed.
UserTypes(newText) ==
    /\ InputEnabled
    /\ newText # input
    /\ handleInputChange(newText)

\* A submit event of the message form.
UserSubmits ==
    /\ SendEnabled
    /\ handleSend

\* -------------------------------------------------------- specifications
Environment ==
    \/ \E outcome \in {"throws", "dummy", "real"} : InitFirebase(outcome)
    \/ \E user \in {NULL, UID} : OnAuthStateChanged(user)
    \/ \E value \in NameInputs : SubmitUsername(value)
    \/ \E s \in Snapshots : OnSnapshot(SnapshotDocs(s))
    \/ OnSnapshotError
    \/ \E connected \in BOOLEAN : OnConnectionChange(connected)
    \/ \E m \in LiveMsgs : OnLiveMessage(m)
    \/ \E id \in timers : TimerFires(id)
    \/ \E outcome \in {"resolved", "rejected"} : AppendSettles(outcome)
    \/ Unmount

\* The program as rendered: user events reach the handlers through the
\* controls, which may be disabled.
Next ==
    \/ Environment
    \/ \E newText \in Strings : UserTypes(newText)
    \/ UserSubmits

Spec == Init /\ [][Next]_vars

\* The program as rendered, with the browser's guarantee that a timer which
\* stays outstanding runs its callback.
SpecFair == Spec /\ WF_vars(\E id \in timers : TimerFires(id))

\* The handlers called directly, whatever the controls show.
NextHandlers ==
    \/ Environment
    \/ \E newText \in Strings : handleInputChange(newText)
    \/ handleSend

SpecHandlers == Init /\ [][NextHandlers]_vars

\* ===================================================================== claims
\* Helpers: the typing commands among the commands o of one step.
StartCount(o) ==
    Cardinality({i \in 1..Len(o) : o[i].op = "setTyping" /\ o[i].arg = TRUE})
StopCount(o) ==
    Cardinality({i \in 1..Len(o) : o[i].op = "setTyping" /\ o[i].arg = FALSE})
IsBlank(s) == \A i \in 1..Len(s) : s[i] = " "

\* C1: the rendered sequence is the latest snapshot's messages oldest-first
\* (the store's newest-first order reversed) followed by the live messages in
\* receipt order; earlier snapshots contribute nothing.
C1_ViewIsLatestSnapshotThenLive ==
    LET n == Len(lastSnapshot)
    IN  /\ Len(allMessages) = n + Len(liveReceived)
        /\ \A i \in 1..n :
              /\ allMessages[i].id = lastSnapshot[n + 1 - i].id
              /\ allMessages[i].text = lastSnapshot[n + 1 - i].data.text
              /\ allMessages[i].timestamp = lastSnapshot[n + 1 - i].data.timestamp
        /\ \A i \in 1..(n - 1) :
              allMessages[i].timestamp < allMessages[i + 1].timestamp
        /\ \A j \in 1..Len(liveReceived) : allMessages[n + j] = liveReceived[j]

\* A two-document snapshot has replaced an earlier one after two live messages
\* arrived.
C1_Witness ==
    /\ lastEvent = "OnSnapshot"
    /\ snapshotDelivery = "replacing"
    /\ Len(lastSnapshot) = 2
    /\ Len(liveReceived) = 2
    /\ liveReceived[1] # liveReceived[2]

\* C2: connect(username) is invoked at most once in a session.
C2_ConnectAtMostOnce == Len(connectCalls) <= 1

\* The transport reconnected after a drop, with messages received before it.
C2_Witness ==
    /\ Len(connectCalls) = 1
    /\ lastEvent = "OnConnectionChange"
    /\ isConnected
    /\ liveReceived # << >>

\* C3: connect is invoked only with identity ready and with the chosen,
\* non-empty username.
C3_ConnectOnlyWhenReadyAndNamed ==
    /\ connectCalls # << >> => isAuthReady /\ username # EmptyString
    /\ \A i \in 1..Len(connectCalls) :
          connectCalls[i] # EmptyString /\ connectCalls[i] = username
    /\ \A i \in 1..Len(ops) :
          ops[i].op = "connect" =>
              isAuthReady /\ ops[i].arg # EmptyString /\ ops[i].arg = username

\* The username was chosen first; identity readiness then triggered connect.
C3_Witness ==
    /\ lastEvent = "OnAuthStateChanged"
    /\ ops # << >>
    /\ ops[Len(ops)].op = "connect"

\* C4: before identity is ready the program as rendered issues no durable and
\* no live operation.
C4_NothingBeforeIdentityReady ==
    ~isAuthReady =>
        /\ \A i \in 1..Len(ops) :
              /\ ops[i].op \notin {"connect", "sendMessage", "setTyping",
                                   "addDoc", "onSnapshot"}
              /\ ops[i].op = "unsubscribe" => ops[i].arg = "identity"
        /\ connectCalls = << >>
        /\ ~subscribed
        /\ pendingAppends = 0
        /\ lastTyping = "none"
        /\ ~isConnected

\* The username is chosen and the chat interface shown while the store handle
\* exists and identity is still awaited.
C4_Witness ==
    /\ ~isAuthReady
    /\ username # EmptyString
    /\ db # NULL
    /\ lastEvent = "SubmitUsername"

\* C5: a burst of keystrokes that starts with no timer outstanding and ends
\* when the timer fires or a message is sent has emitted exactly one 'start
\* typing', and its end emits exactly one 'stop typing'.
C5_BurstOneStartOneStop ==
    [][(timers # {} /\ timers' = {}) =>
          (burstStarts = 1 /\ StopCount(ops') = 1)]_vars

\* C6: a non-empty input change made while the debouncer is Idle emits 'start
\* typing' once, and 'start typing' is emitted at no other time.
C6_StartExactlyOnIdleNonEmptyChange ==
    [][/\ (lastEvent' = "handleInputChange" /\ Len(input') > 0
             /\ debouncer = "Idle") => StartCount(ops') = 1
       /\ StartCount(ops') > 0 =>
             (lastEvent' = "handleInputChange" /\ Len(input') > 0
                /\ debouncer = "Idle" /\ StartCount(ops') = 1)]_vars

\* C7: 'stop typing' is emitted exactly once per Typing -> Idle transition
\* and at no other time, and 'start typing' and 'stop typing' alternate,
\* beginning with 'start typing'.
C7_StopPerTransitionAlternating ==
    [][/\ StopCount(ops') =
             (IF debouncer = "Typing" /\ debouncer' = "Idle" THEN 1 ELSE 0)
       /\ StartCount(ops') > 0 => lastTyping # "start"
       /\ StopCount(ops') > 0 => lastTyping = "start"]_vars

\* C8: at most one inactivity timer is outstanding, and it is the one whose
\* handle typingTimeoutRef holds, so the next input change or send cancels it.
C8_AtMostOneTimer ==
    /\ Cardinality(timers) <= 1
    /\ timers = IF typingTimeoutRef = NoTimer THEN {} ELSE {typingTimeoutRef}

\* A keystroke arrived while Typing: it emitted nothing and re-armed the timer.
C8_Witness ==
    /\ lastEvent = "handleInputChange"
    /\ ops = << >>
    /\ lastTyping = "start"
    /\ timers # {}

\* C9: a send of an empty or whitespace-only input issues no command and
\* leaves the input, the timer and the view as they were.
C9_BlankSendIsNoOp ==
    [][(lastEvent' = "handleSend" /\ IsBlank(input)) =>
          /\ ops' = << >>
          /\ UNCHANGED <<input, timers, typingTimeoutRef, persistentMessages,
                         liveMessages, pendingAppends, lastTyping>>]_vars

\* A whitespace-only input was submitted by a named user while a timer was
\* pending; an accepted send would have cleared the input.
C9_Witness ==
    /\ lastEvent = "handleSend"
    /\ input # EmptyString
    /\ IsBlank(input)
    /\ username # EmptyString
    /\ timers # {}

\* C10: an accepted send has the same visible effect whether or not a store
\* handle exists (live emission of the trimmed text, 'stop typing', input
\* cleared, timer cancelled, view untouched), and a rejected append changes
\* nothing.
C10_DurableFailureInvisible ==
    [][/\ (lastEvent' = "handleSend" /\ Trim(input) # EmptyString
             /\ username # EmptyString) =>
             /\ Len(ops') >= 2
             /\ ops'[1].op = "sendMessage" /\ ops'[1].arg = Trim(input)
             /\ ops'[Len(ops')].op = "setTyping" /\ ops'[Len(ops')].arg = FALSE
             /\ StopCount(ops') = 1
             /\ \A i \in 1..Len(ops') :
                   ops'[i].op \in {"sendMessage", "setTyping", "addDoc"}
             /\ input' = EmptyString
             /\ timers' = {}
             /\ allMessages' = allMessages
       /\ lastEvent' = "appendRejected" =>
             /\ ops' = << >>
             /\ UNCHANGED <<input, username, persistentMessages, liveMessages,
                            isConnected, timers, typingTimeoutRef,
                            lastTyping>>]_vars

\* An append was rejected after its send went through.
C10_Witness ==
    /\ lastEvent = "appendRejected"
    /\ input = EmptyString
    /\ lastTyping = "stop"

C12_SubscriptionErrorKeepsHistory ==
    /\ [](lastEvent = "OnSnapshotError" =>
             /\ persistentMessages = SnapshotMessages(lastSnapshot)
             /\ (isConnected /\ Len(liveMessages) < MaxLive) =>
                    ENABLED (\E m \in LiveMsgs : OnLiveMessage(m)))
    /\ [][/\ lastEvent' = "OnSnapshotError" =>
                /\ ops' = << >>
                /\ UNCHANGED <<persistentMessages, liveMessages, input,
                               username, isConnected, isAuthReady, db,
                               timers, typingTimeoutRef, subscribed,
                               pendingAppends, lastTyping>>
          /\ (lastEvent = "OnSnapshotError" /\ lastEvent' = "OnLiveMessage") =>
                /\ persistentMessages' = persistentMessages
                /\ Len(allMessages') = Len(allMessages) + 1
                /\ SubSeq(allMessages', 1, Len(allMessages)) = allMessages]_vars

\* The subscription failed after a snapshot was shown, with a live message in
\* the view and the transport connected.
C12_Witness ==
    /\ lastEvent = "OnSnapshotError"
    /\ persistentMessages # << >>
    /\ Len(liveMessages) = 1
    /\ isConnected

\* C13: while the transport is not connected the program as rendered issues
\* no live emission of a message, no durable append and no 'start typing':
\* the commands of the last step contain none of them in any state in which
\* isConnected is false (no handler that issues them changes isConnected).
C13_NoSendWhileDisconnected ==
    ~isConnected =>
        /\ \A i \in 1..Len(ops) : ops[i].op \notin {"sendMessage", "addDoc"}
        /\ StartCount(ops) = 0
        /\ lastEvent \notin {"handleSend", "handleInputChange"}

\* The transport dropped while a text was typed and not yet sent: the text is
\* still in the disabled input.
C13_Witness ==
    /\ ~isConnected
    /\ lastEvent = "OnConnectionChange"
    /\ Trim(input) # EmptyString
    /\ username # EmptyString
    /\ mounted

\* C14: a message in the view keeps its display identity (its render key) in
\* every later step: a durable message as long as a snapshot contains it, a
\* live message for the rest of the session.
C14_DisplayIdentityNeverChanges ==
    [][/\ \A i \in 1..Len(persistentMessages) :
             \A k \in 1..Len(persistentMessages') :
                 persistentMessages'[k] = persistentMessages[i] =>
                     renderKey(allMessages', k) = renderKey(allMessages, i)
       /\ \A j \in 1..Len(liveMessages) :
             j <= Len(liveMessages') =>
                 renderKey(allMessages', Len(persistentMessages') + j)
                     = renderKey(allMessages, Len(persistentMessages) + j)]_vars

\* C15: the username changes only in the username form's handler, only from
\* empty to a non-empty trimmed value; once non-empty it never changes.
C15_UsernameChosenOnce ==
    [][username' # username =>
          /\ username = EmptyString
          /\ username' # EmptyString
          /\ Trim(username') = username'
          /\ lastEvent' = "SubmitUsername"]_vars

\* The session went on after the name was chosen: a message was sent under it
\* and the component later unmounted.
C15_Witness ==
    /\ username # EmptyString
    /\ Len(connectCalls) = 1
    /\ connectCalls[1] = username
    /\ lastTyping = "stop"
    /\ pendingAppends > 0
    /\ ~mounted

\* C16: while the component is mounted the snapshot listener is registered
\* exactly when identity is ready and a store handle exists, whatever the
\* username and the transport's state; snapshots are applied only then.
C16_SubscriptionFollowsIdentityAlone ==
    /\ mounted => (subscribed <=> (isAuthReady /\ db # NULL))
    /\ lastEvent \in {"OnSnapshot", "OnSnapshotError"} =>
          (isAuthReady /\ db # NULL)

\* A snapshot was applied with no username chosen and connect never called.
C16_Witness ==
    /\ lastEvent = "OnSnapshot"
    /\ persistentMessages # << >>
    /\ username = EmptyString
    /\ connectCalls = << >>
    /\ ~isConnected

\* Helper: the unsubscribe commands for a stream among the commands o.
UnsubscribeCount(o, stream) ==
    Cardinality({i \in 1..Len(o) :
                    o[i].op = "unsubscribe" /\ o[i].arg = stream})

\* C17: teardown invokes the unsubscribe handle of every listener that is
\* registered, once, and of no other; afterwards no listener is registered
\* and no snapshot, subscription error or identity event is applied.
C17_ListenersReleasedAtTeardown ==
    /\ [](~mounted => (~subscribed /\ ~authSubscribed))
    /\ [][/\ lastEvent' = "Unmount" =>
                /\ UnsubscribeCount(ops', "snapshot")
                       = (IF subscribed THEN 1 ELSE 0)
                /\ UnsubscribeCount(ops', "identity")
                       = (IF authSubscribed THEN 1 ELSE 0)
          /\ ~mounted =>
                /\ UNCHANGED <<persistentMessages, isAuthReady, lastSnapshot>>
                /\ lastEvent' \notin {"OnSnapshot", "OnSnapshotError",
                                      "OnAuthStateChanged"}]_vars

\* Teardown released both listeners, after a snapshot had been applied.
C17_Witness ==
    /\ ~mounted
    /\ lastEvent = "Unmount"
    /\ Len(ops) = 2
    /\ persistentMessages # << >>

\* C18: while a durable write is outstanding every event that is due is still
\* handled (a live message, a snapshot, an input change, a timer expiry, a
\* further send), and a write that completes or fails changes nothing but
\* the set of outstanding writes, so the order in which writes settle cannot
\* show in the view or in the typing state.
C18_DurableWriteNeverBlocks ==
    /\ []((pendingAppends > 0 /\ mounted) =>
             /\ (isConnected /\ Len(liveMessages) < MaxLive) =>
                    ENABLED (\E m \in LiveMsgs : OnLiveMessage(m))
             /\ subscribed =>
                    ENABLED (\E s \in Snapshots : OnSnapshot(SnapshotDocs(s)))
             /\ InputEnabled =>
                    ENABLED (\E newText \in Strings : UserTypes(newText))
             /\ timers # {} => ENABLED (\E id \in timers : TimerFires(id))
             /\ (SendEnabled /\ pendingAppends < MaxPending) =>
                    ENABLED UserSubmits)
    /\ [][lastEvent' \in {"appendResolved", "appendRejected"} =>
             /\ ops' = << >>
             /\ pendingAppends' = pendingAppends - 1
             /\ UNCHANGED <<persistentMessages, liveMessages, input, username,
                            isConnected, lastTyping, timers,
                            typingTimeoutRef>>]_vars

\* A second message was sent while the durable write of the first was still
\* outstanding, with a live message and a snapshot in the view.
C18_Witness ==
    /\ lastEvent = "handleSend"
    /\ pendingAppends = 2
    /\ liveMessages # << >>
    /\ persistentMessages # << >>

\* Helper: the commands named op among the commands o.
OpCount(o, op) == Cardinality({i \in 1..Len(o) : o[i].op = op})

\* C19: an accepted send (non-empty trimmed text, non-empty username) issues
\* exactly one live emission, of the trimmed text, and exactly one append when
\* a store handle exists (none otherwise), carrying the same text and the
\* session username as sender; no other step issues an emission or an append,
\* so none is ever retried.
C19_OneEmissionOneAppendPerSend ==
    [][IF lastEvent' = "handleSend" /\ Trim(input) # EmptyString
            /\ username # EmptyString
       THEN /\ OpCount(ops', "sendMessage") = 1
            /\ \A i \in 1..Len(ops') :
                  ops'[i].op = "sendMessage" => ops'[i].arg = Trim(input)
            /\ OpCount(ops', "addDoc") = (IF db # NULL THEN 1 ELSE 0)
            /\ \A i \in 1..Len(ops') :
                  ops'[i].op = "addDoc" =>
                      /\ ops'[i].arg.text = Trim(input)
                      /\ ops'[i].arg.sender = username
       ELSE /\ OpCount(ops', "sendMessage") = 0
            /\ OpCount(ops', "addDoc") = 0]_vars

\* A send was accepted with a store handle: one emission, one append of the
\* same text, then 'stop typing'.
C19_Witness ==
    /\ lastEvent = "handleSend"
    /\ Len(ops) = 3
    /\ ops[1].op = "sendMessage"
    /\ ops[2].op = "addDoc"
    /\ ops[2].arg.text = ops[1].arg
    /\ ops[2].arg.sender = username

\* C20: in no state is 'start typing' the last typing command emitted while
\* no inactivity timer is outstanding, and, a timer that stays outstanding
\* being run, every 'start typing' is followed by a 'stop typing'.
C20_TypingNeverSticks ==
    /\ [](lastTyping = "start" => timers # {})
    /\ (lastTyping = "start") ~> (lastTyping = "stop")

\* The transport dropped while the user was typing, and the timer then emitted
\* 'stop typing' with the text still in the input.
C20_Witness ==
    /\ lastEvent = "TimerFires"
    /\ lastTyping = "stop"
    /\ ~isConnected
    /\ Trim(input) # EmptyString

\* C21: after teardown no command is issued to the live transport (connect,
\* sendMessage, setTyping); in particular an inactivity timer outstanding at
\* teardown emits no 'stop typing' afterwards.
C21_NoLiveCommandAfterTeardown ==
    ~mounted =>
        \A i \in 1..Len(ops) :
            ops[i].op \notin {"connect", "sendMessage", "setTyping"}

====
